---- MODULE Spec2Model ----
(***************************************************************************)
(* Model of the ffire generated C++ bindings for the "plugin message"      *)
(* schema: the wire codec (generated.hpp: Encoder, Decoder,                *)
(* encode_plugin_message, decode_plugin_message) and the C boundary layers *)
(* built on it (generated_c.cpp: plugin_* and message_* functions).        *)
(*                                                                         *)
(* Representation of C++ values:                                           *)
(*   std::string / byte buffers   sequences of bytes 0..255                *)
(*   int32_t                      an integer in -2^31 .. 2^31-1            *)
(*   float                        its IEEE-754 bit pattern, held as the    *)
(*                                int32_t that write_float32 hands to      *)
(*                                write_int32 (memcpy copies the bits)     *)
(*   int64_t                      four 16-bit limbs, least significant     *)
(*                                first, of its two's complement pattern   *)
(*   std::optional<T>             [has |-> BOOLEAN, val |-> T]             *)
(*                                                                         *)
(* Three specifications share the definitions:                             *)
(*   Spec          a caller of plugin_decode / encode / free and of the    *)
(*                 plugin field accessors, in any order                    *)
(*   AccessorSpec  a caller of plugin_get_parameter and of the parameter   *)
(*                 field accessors                                         *)
(*   CodecSpec     a message taken through encode, damage, decode and the  *)
(*                 boundary of both libraries (plugin and message)         *)
(***************************************************************************)
EXTENDS Integers, Sequences, FiniteSets, TLC

VARIABLES
    value,      \* codec pipeline: the message handed to encode_plugin_message
    wire,       \* codec pipeline: the byte buffer under test
    origin,     \* codec pipeline: how wire was produced
    dec,        \* codec pipeline: outcome of decode_plugin_message on wire
    cpc,        \* codec pipeline: position of the caller
    handles,    \* boundary: PluginHandleImpl / MessageHandleImpl objects by address
    params,     \* boundary: ParameterHandleImpl objects by address
    buffers,    \* boundary: caller-owned buffers returned by *_encode
    crashed,    \* boundary: the process has been killed by undefined behaviour
    last        \* boundary: the last call made and what it returned

cvars == <<value, wire, origin, dec, cpc>>
bvars == <<handles, params, buffers, crashed, last>>
vars == <<value, wire, origin, dec, cpc, handles, params, buffers, crashed, last>>

---------------------------------------------------------------------------
(* Bounds of the model *)

MaxPlugins == 2       \* plugins per sample message
MaxParams == 2        \* parameters per sample plugin
MaxGarbage == 2       \* length of arbitrary input buffers
MaxAllocs == 3        \* objects the boundary layer allocates in one run

(* Program constants *)

ByteRange == 256      \* uint8_t
Uint16Range == 65536  \* uint16_t: static_cast<uint16_t>(s.size())

Uint16Max == Uint16Range - 1

---------------------------------------------------------------------------
(* Entity model: struct Parameter, struct Plugin *)

Opt(present, v) == [has |-> present, val |-> v]

Parameter(dn, dv, cv, ad, mx, mn, un, id, cr, iw, rf, iv, ivs) ==
    [DisplayName |-> dn, DefaultValue |-> dv, CurrentValue |-> cv, Address |-> ad,
     MaxValue |-> mx, MinValue |-> mn, Unit |-> un, Identifier |-> id,
     CanRamp |-> cr, IsWritable |-> iw, RawFlags |-> rf,
     IndexedValues |-> iv, IndexedValuesSource |-> ivs]

Plugin(nm, mf, ty, st, ps) ==
    [Name |-> nm, ManufacturerID |-> mf, Type |-> ty, Subtype |-> st, Parameters |-> ps]

---------------------------------------------------------------------------
(* Sequencing: K applied to the value of x.  x is computed once, before K runs,  *)
(* as a statement's result is in the source.                                     *)

Then(x, K(_)) == CHOOSE y \in { K(v) : v \in {x} } : TRUE

---------------------------------------------------------------------------
(* class Encoder: every write_* takes the buffer and returns it extended *)

write_byte(buffer, b) == Append(buffer, b)

\* Faulty variant of write_bool: true is written as 0xFF
write_bool_ff(buffer, v) == Append(buffer, IF v THEN ByteRange - 1 ELSE 0)

write_bool(buffer, v) == Append(buffer, IF v THEN 1 ELSE 0)

\* Faulty variant of write_int32: most significant byte first
write_int32_be(buffer, v) ==
    buffer \o << (v \div (ByteRange * ByteRange * ByteRange)) % ByteRange,
                 (v \div (ByteRange * ByteRange)) % ByteRange,
                 (v \div ByteRange) % ByteRange,
                 v % ByteRange >>

\* static_cast<uint8_t>(u >> 8k) of u = static_cast<uint32_t>(v): the k-th byte of
\* the two's complement pattern is floor(v / 256^k) mod 256
write_int32(buffer, v) ==
    buffer \o << v % ByteRange,
                 (v \div ByteRange) % ByteRange,
                 (v \div (ByteRange * ByteRange)) % ByteRange,
                 (v \div (ByteRange * ByteRange * ByteRange)) % ByteRange >>

write_int64(buffer, v) ==
    buffer \o << v[1] % ByteRange, v[1] \div ByteRange,
                 v[2] % ByteRange, v[2] \div ByteRange,
                 v[3] % ByteRange, v[3] \div ByteRange,
                 v[4] % ByteRange, v[4] \div ByteRange >>

write_float32(buffer, v) == write_int32(buffer, v)

\* the two length bytes of a uint16_t len
write_len(buffer, len) ==
    write_byte(write_byte(buffer, len % ByteRange), (len \div ByteRange) % ByteRange)

write_string(buffer, s) ==
    LET len == Len(s) % Uint16Range
    IN  write_len(buffer, len) \o s

RECURSIVE encode_strings(_, _, _)
encode_strings(buffer, ss, i) ==
    IF i > Len(ss) THEN buffer
    ELSE Then(write_string(buffer, ss[i]), LAMBDA b : encode_strings(b, ss, i + 1))

encode_parameter(buffer, elem) ==
    LET b1 == write_string(buffer, elem.DisplayName)
        b2 == write_float32(b1, elem.DefaultValue)
        b3 == write_float32(b2, elem.CurrentValue)
        b4 == write_int32(b3, elem.Address)
        b5 == write_float32(b4, elem.MaxValue)
        b6 == write_float32(b5, elem.MinValue)
        b7 == write_string(b6, elem.Unit)
        b8 == write_string(b7, elem.Identifier)
        b9 == write_bool(b8, elem.CanRamp)
        b10 == write_bool(b9, elem.IsWritable)
        b11 == write_int64(b10, elem.RawFlags)
        b12 == IF elem.IndexedValues.has
               THEN encode_strings(
                        write_len(write_byte(b11, 1),
                                  Len(elem.IndexedValues.val) % Uint16Range),
                        elem.IndexedValues.val, 1)
               ELSE write_byte(b11, 0)
    IN  IF elem.IndexedValuesSource.has
        THEN write_string(write_byte(b12, 1), elem.IndexedValuesSource.val)
        ELSE write_byte(b12, 0)

RECURSIVE encode_parameters(_, _, _)
encode_parameters(buffer, ps, i) ==
    IF i > Len(ps) THEN buffer
    ELSE Then(encode_parameter(buffer, ps[i]), LAMBDA b : encode_parameters(b, ps, i + 1))

encode_plugin(buffer, elem) ==
    LET b1 == write_string(buffer, elem.Name)
        b2 == write_string(b1, elem.ManufacturerID)
        b3 == write_string(b2, elem.Type)
        b4 == write_string(b3, elem.Subtype)
        b5 == write_len(b4, Len(elem.Parameters) % Uint16Range)
    IN  encode_parameters(b5, elem.Parameters, 1)

RECURSIVE encode_plugins(_, _, _)
encode_plugins(buffer, v, i) ==
    IF i > Len(v) THEN buffer
    ELSE Then(encode_plugin(buffer, v[i]), LAMBDA b : encode_plugins(b, v, i + 1))

\* Faulty variant of encode_plugin_message: one padding byte behind the message
encode_plugin_message_padded(v) ==
    Append(encode_plugins(write_len(<<>>, Len(v) % Uint16Range), v, 1), 0)

encode_plugin_message(v) ==
    encode_plugins(write_len(<<>>, Len(v) % Uint16Range), v, 1)

---------------------------------------------------------------------------
(* class Decoder.  A decoder d is a record: data, size, pos as in the class;     *)
(* adjacent is the byte that lies behind the buffer in memory; err is the        *)
(* what() of the exception thrown so far ("" when none); reads logs every        *)
(* access to data as [pos, n].  Once an exception is thrown nothing else runs:   *)
(* every read_* passes a failed decoder through unchanged.  A read_* returns     *)
(* [d, v]: the decoder after the read and the value read.                        *)

NoError == ""
InsufficientData == "insufficient data for decode"

Decoder(data, size, adj) ==
    [data |-> data, size |-> size, pos |-> 0, adjacent |-> adj,
     err |-> NoError, reads |-> <<>>, flags |-> {}]

\* Faulty variant of check_remaining: the comparison is off by one
check_remaining_late(d, needed) ==
    IF d.pos + needed > d.size + 1
    THEN [d EXCEPT !.err = InsufficientData]
    ELSE d

check_remaining(d, needed) ==
    IF d.pos + needed > d.size
    THEN [d EXCEPT !.err = InsufficientData]
    ELSE d

\* data[i], i counted from 0
data_at(d, i) == IF i < Len(d.data) THEN d.data[i + 1] ELSE d.adjacent

\* the decoder after reading n bytes at pos: the access is logged, pos += n
consume(d, n) ==
    [d EXCEPT !.reads = Append(@, [pos |-> d.pos, n |-> n]), !.pos = @ + n]

\* Faulty variant of read_bool: no check_remaining(1) before the read
read_bool_unchecked(d) ==
    IF d.err # NoError THEN [d |-> d, v |-> FALSE]
    ELSE [d |-> [consume(d, 1) EXCEPT !.flags = @ \cup {d.pos}],
          v |-> data_at(d, d.pos) # 0]

\* return data[pos++] != 0x00; flags notes the positions read as a boolean
read_bool(d) ==
    IF d.err # NoError THEN [d |-> d, v |-> FALSE]
    ELSE LET c == check_remaining(d, 1)
         IN  IF c.err # NoError THEN [d |-> c, v |-> FALSE]
             ELSE [d |-> [consume(c, 1) EXCEPT !.flags = @ \cup {c.pos}],
                   v |-> data_at(c, c.pos) # 0]

\* static_cast<int32_t>(u) of the little-endian uint32_t u
read_int32(d) ==
    IF d.err # NoError THEN [d |-> d, v |-> 0]
    ELSE LET c == check_remaining(d, 4)
             low == data_at(c, c.pos) + data_at(c, c.pos + 1) * ByteRange
                    + data_at(c, c.pos + 2) * ByteRange * ByteRange
             top == data_at(c, c.pos + 3)
             sgn == IF top >= ByteRange \div 2 THEN top - ByteRange ELSE top
         IN  IF c.err # NoError THEN [d |-> c, v |-> 0]
             ELSE [d |-> consume(c, 4),
                   v |-> sgn * ByteRange * ByteRange * ByteRange + low]

read_int64(d) ==
    IF d.err # NoError THEN [d |-> d, v |-> <<0, 0, 0, 0>>]
    ELSE LET c == check_remaining(d, 8)
             limb(k) == data_at(c, c.pos + 2 * k) + data_at(c, c.pos + 2 * k + 1) * ByteRange
         IN  IF c.err # NoError THEN [d |-> c, v |-> <<0, 0, 0, 0>>]
             ELSE [d |-> consume(c, 8), v |-> <<limb(0), limb(1), limb(2), limb(3)>>]

read_float32(d) == read_int32(d)

read_array_length(d) ==
    IF d.err # NoError THEN [d |-> d, v |-> 0]
    ELSE LET c == check_remaining(d, 2)
         IN  IF c.err # NoError THEN [d |-> c, v |-> 0]
             ELSE [d |-> consume(c, 2),
                   v |-> data_at(c, c.pos) + data_at(c, c.pos + 1) * ByteRange]

read_string(d) ==
    Then(read_array_length(d),         \* the same two-byte read as lines 170-173
         LAMBDA l :
            LET c == check_remaining(l.d, l.v)
            IN  IF l.d.err # NoError THEN [d |-> l.d, v |-> <<>>]
                ELSE IF c.err # NoError THEN [d |-> c, v |-> <<>>]
                ELSE [d |-> consume(c, l.v),
                      v |-> [i \in 1..l.v |-> data_at(c, c.pos + i - 1)]])

\* for (uint16_t i = 0; i < len; ++i) tmp.push_back(read_string())
RECURSIVE decode_strings(_, _, _)
decode_strings(d, len, tmp) ==
    IF d.err # NoError \/ Len(tmp) >= len THEN [d |-> d, v |-> tmp]
    ELSE Then(read_string(d),
              LAMBDA r : IF r.d.err # NoError THEN [d |-> r.d, v |-> tmp]
                         ELSE decode_strings(r.d, len, Append(tmp, r.v)))

\* if (dec.read_bool()) { tmp = <len strings>; elem1.IndexedValues = std::move(tmp); }
decode_indexed_values(d) ==
    Then(read_bool(d),
         LAMBDA f :
            IF ~f.v THEN [d |-> f.d, v |-> Opt(FALSE, <<>>)]
            ELSE Then(read_array_length(f.d),
                      LAMBDA n : Then(decode_strings(n.d, n.v, <<>>),
                                      LAMBDA t : [d |-> t.d, v |-> Opt(TRUE, t.v)])))

\* if (dec.read_bool()) { elem1.IndexedValuesSource = dec.read_string(); }
decode_indexed_values_source(d) ==
    Then(read_bool(d),
         LAMBDA f :
            IF ~f.v THEN [d |-> f.d, v |-> Opt(FALSE, <<>>)]
            ELSE Then(read_string(f.d), LAMBDA t : [d |-> t.d, v |-> Opt(TRUE, t.v)]))

\* the assignments elem1.<field> = dec.read_<type>() of lines 261-287, in order
ParameterFields ==
    << "DisplayName", "DefaultValue", "CurrentValue", "Address", "MaxValue", "MinValue",
       "Unit", "Identifier", "CanRamp", "IsWritable", "RawFlags",
       "IndexedValues", "IndexedValuesSource" >>

read_parameter_field(d, field) ==
    CASE field \in {"DisplayName", "Unit", "Identifier"} -> read_string(d)
      [] field \in {"DefaultValue", "CurrentValue", "MaxValue", "MinValue"} -> read_float32(d)
      [] field = "Address" -> read_int32(d)
      [] field \in {"CanRamp", "IsWritable"} -> read_bool(d)
      [] field = "RawFlags" -> read_int64(d)
      [] field = "IndexedValues" -> decode_indexed_values(d)
      [] field = "IndexedValuesSource" -> decode_indexed_values_source(d)

\* Parameter elem1; both optionals start empty, the other members are assigned
\* before anything reads them
NewParameter ==
    Parameter(<<>>, 0, 0, 0, 0, 0, <<>>, <<>>, FALSE, FALSE, <<0, 0, 0, 0>>,
              Opt(FALSE, <<>>), Opt(FALSE, <<>>))

RECURSIVE decode_parameter_fields(_, _, _)
decode_parameter_fields(d, elem1, k) ==
    IF k > Len(ParameterFields) THEN [d |-> d, v |-> elem1]
    ELSE Then(read_parameter_field(d, ParameterFields[k]),
              LAMBDA r : decode_parameter_fields(
                             r.d, [elem1 EXCEPT ![ParameterFields[k]] = r.v], k + 1))

decode_parameter(d) == decode_parameter_fields(d, NewParameter, 1)

RECURSIVE decode_parameters(_, _, _)
decode_parameters(d, len, acc) ==
    IF d.err # NoError \/ Len(acc) >= len THEN [d |-> d, v |-> acc]
    ELSE Then(decode_parameter(d),
              LAMBDA r : IF r.d.err # NoError THEN [d |-> r.d, v |-> acc]
                         ELSE decode_parameters(r.d, len, Append(acc, r.v)))

\* the assignments elem0.<field> = dec.read_string() of lines 252-255
PluginFields == << "Name", "ManufacturerID", "Type", "Subtype" >>

RECURSIVE decode_plugin_fields(_, _, _)
decode_plugin_fields(d, elem0, k) ==
    IF k > Len(PluginFields) THEN [d |-> d, v |-> elem0]
    ELSE Then(read_string(d),
              LAMBDA r : decode_plugin_fields(
                             r.d, [elem0 EXCEPT ![PluginFields[k]] = r.v], k + 1))

decode_plugin(d) ==
    Then(decode_plugin_fields(d, Plugin(<<>>, <<>>, <<>>, <<>>, <<>>), 1),
         LAMBDA h :
            Then(read_array_length(h.d),
                 LAMBDA n :
                    Then(decode_parameters(n.d, n.v, <<>>),
                         LAMBDA ps : [d |-> ps.d,
                                      v |-> [h.v EXCEPT !.Parameters = ps.v]])))

RECURSIVE decode_plugins(_, _, _)
decode_plugins(d, len, result) ==
    IF d.err # NoError \/ Len(result) >= len THEN [d |-> d, v |-> result]
    ELSE Then(decode_plugin(d),
              LAMBDA r : IF r.d.err # NoError THEN [d |-> r.d, v |-> result]
                         ELSE decode_plugins(r.d, len, Append(result, r.v)))

\* The outcome of decode_plugin_message(data, size): err is "" when it returns and
\* the what() of the exception when it throws; result is the returned vector
\* (empty when it throws); pos and reads are the decoder's cursor and accesses.
decode_plugin_message(data, size, adj) ==
    Then(read_array_length(Decoder(data, size, adj)),
         LAMBDA n :
            Then(decode_plugins(n.d, n.v, <<>>),
                 LAMBDA r : [err |-> r.d.err,
                             result |-> IF r.d.err = NoError THEN r.v ELSE <<>>,
                             size |-> size, pos |-> r.d.pos, reads |-> r.d.reads,
                             flags |-> r.d.flags]))

---------------------------------------------------------------------------
(* Sample values *)

Txt_a == <<97>>
Txt_ab == <<97, 98>>
Txt_hi == <<255, 0>>

\* The int32_t that holds the bits of a float: sign bit, 8 exponent bits, 23
\* mantissa bits
FloatBits(sign, exponent, mantissa) ==
    IF sign = 0 THEN exponent * 8388608 + mantissa
    ELSE (exponent * 8388608 + mantissa - 2147483647) - 1

F_zero == FloatBits(0, 0, 0)
F_one == FloatBits(0, 127, 0)            \* 0x3F800000
F_nan == FloatBits(0, 255, 4194304)      \* 0x7FC00000
F_neginf == FloatBits(1, 255, 0)         \* 0xFF800000
F_negzero == FloatBits(1, 0, 0)          \* 0x80000000

Int32Min == -2147483647 - 1
Int32Max == -(Int32Min + 1)

ParamFixtures ==
    << \* IndexedValues absent, IndexedValuesSource absent
       Parameter(<<>>, F_zero, F_zero, 0, F_zero, F_zero, <<>>, <<>>, FALSE, FALSE,
                 <<0, 0, 0, 0>>, Opt(FALSE, <<>>), Opt(FALSE, <<>>)),
       \* IndexedValues present ["a","ab",""], IndexedValuesSource absent
       Parameter(Txt_ab, F_nan, F_neginf, -1, F_one, F_negzero, Txt_hi, Txt_a, TRUE, FALSE,
                 <<65535, 65535, 65535, 65535>>,
                 Opt(TRUE, <<Txt_a, Txt_ab, <<>>>>), Opt(FALSE, <<>>)),
       \* IndexedValues absent, IndexedValuesSource present
       Parameter(Txt_a, F_one, F_nan, Int32Max, F_neginf, F_one, <<>>, Txt_ab, FALSE, TRUE,
                 <<0, 0, 0, 32768>>, Opt(FALSE, <<>>), Opt(TRUE, Txt_ab)),
       \* both present and empty
       Parameter(Txt_hi, F_negzero, F_one, Int32Min, F_nan, F_neginf, Txt_a, <<>>, TRUE, TRUE,
                 <<1, 515, 1029, 1543>>, Opt(TRUE, <<>>), Opt(TRUE, <<>>)),
       \* both present and non-empty
       Parameter(<<>>, F_neginf, F_negzero, 258, F_negzero, F_nan, Txt_ab, Txt_hi, FALSE, FALSE,
                 <<65534, 0, 65535, 32767>>, Opt(TRUE, <<Txt_hi>>), Opt(TRUE, Txt_a)) >>

NumFixtures == Len(ParamFixtures)

HeaderFixtures ==
    << <<(<<70, 111, 111>>), <<77, 70, 82, 49>>, <<97, 117, 102, 120>>, <<97, 98, 99, 100>>>>,
       <<(<<>>), Txt_hi, <<>>, Txt_a>> >>

\* A message of n plugins with m parameters each; the fixtures rotate with f so that
\* neighbouring plugins and neighbouring parameters differ
SamplePlugin(i, m, f) ==
    LET h == HeaderFixtures[((f + i) % Len(HeaderFixtures)) + 1]
    IN  Plugin(h[1], h[2], h[3], h[4],
               [j \in 1..m |-> ParamFixtures[((f + i + j) % NumFixtures) + 1]])

SampleMessage(n, m, f) == [i \in 1..n |-> SamplePlugin(i, m, f)]

\* one message per shape; the rotation 2n + m brings every parameter fixture into
\* some message
SampleMessages ==
    { SampleMessage(n, m, 2 * n + m) : n \in 0..MaxPlugins, m \in 0..MaxParams }

\* One plugin whose Name has len bytes
LongNameMessage(len) == << Plugin([i \in 1..len |-> 97], <<>>, <<>>, <<>>, <<>>) >>

\* Texts at and just over the 16-bit limit
LongMessages == { LongNameMessage(len) : len \in {Uint16Max, Uint16Range, Uint16Range + 3} }

GarbageBytes == {0, 1, 2, 255}

RECURSIVE SeqsUpTo(_, _)
SeqsUpTo(S, n) ==
    IF n = 0 THEN {<<>>}
    ELSE LET shorter == SeqsUpTo(S, n - 1)
         IN  shorter \cup { Append(s, b) : s \in {t \in shorter : Len(t) = n - 1}, b \in S }

GarbageBuffers == SeqsUpTo(GarbageBytes, MaxGarbage)

\* every text length and every sequence count of v fits uint16_t
TextOk(s) == Len(s) <= Uint16Max

ParameterWithinLimits(p) ==
    /\ TextOk(p.DisplayName) /\ TextOk(p.Unit) /\ TextOk(p.Identifier)
    /\ Len(p.IndexedValues.val) <= Uint16Max
    /\ \A i \in 1..Len(p.IndexedValues.val) : TextOk(p.IndexedValues.val[i])
    /\ TextOk(p.IndexedValuesSource.val)

PluginWithinLimits(p) ==
    /\ TextOk(p.Name) /\ TextOk(p.ManufacturerID) /\ TextOk(p.Type) /\ TextOk(p.Subtype)
    /\ Len(p.Parameters) <= Uint16Max
    /\ \A i \in 1..Len(p.Parameters) : ParameterWithinLimits(p.Parameters[i])

WithinLimits(v) ==
    /\ Len(v) <= Uint16Max
    /\ \A i \in 1..Len(v) : PluginWithinLimits(v[i])

---------------------------------------------------------------------------
(* Inputs of the boundary state machine *)

\* a (pointer, length) pair handed to *_decode
Input(isNull, bytes, len) == [null |-> isNull, bytes |-> bytes, len |-> len]

NoInput == Input(TRUE, <<>>, 0)

Prefix(b, n) == SubSeq(b, 1, n)

\* the messages the caller's fixtures hold
BoundaryMessages == { SampleMessage(1, MaxParams, 4), SampleMessage(MaxPlugins, 1, 2) }

\* what a caller hands to decode: nullptr, an empty buffer, an empty message,
\* well-formed messages, the same cut short or followed by one more byte
BoundaryInputs ==
    {Input(TRUE, <<>>, 4), Input(FALSE, <<>>, 0)}
    \cup { Input(FALSE, b, Len(b)) : b \in {encode_plugin_message(<<>>), <<0, 0, 9>>} }
    \cup { Input(FALSE, encode_plugin_message(m), Len(encode_plugin_message(m))) :
               m \in BoundaryMessages }
    \cup { Input(FALSE, Prefix(encode_plugin_message(m), Len(encode_plugin_message(m)) - 1),
                 Len(encode_plugin_message(m)) - 1) : m \in BoundaryMessages }
    \cup { Input(FALSE, Append(encode_plugin_message(m), 1),
                 Len(encode_plugin_message(m)) + 1) : m \in BoundaryMessages }

\* test::decode_plugin_message(data, len) as the boundary calls it; the outcomes for
\* the caller's fixtures are computed once
FixtureOutcomes ==
    [data \in {i \in BoundaryInputs : ~i.null} |->
        decode_plugin_message(data.bytes, data.len, 0)]

decode_call(data) ==
    IF data \in DOMAIN FixtureOutcomes THEN FixtureOutcomes[data]
    ELSE decode_plugin_message(data.bytes, data.len, 0)

---------------------------------------------------------------------------
(* Boundary layer: generated_c.cpp.                                              *)
(* A handle is the address of a heap object; addresses are 1..MaxAllocs and 0    *)
(* is nullptr.  Addresses of deleted objects are not handed out again.           *)

NullHandle == 0
HandleIds == 1..MaxAllocs
ParamIds == 1..MaxAllocs
BufferIds == 1..MaxAllocs

InvalidInput == "Invalid input data"
NoPlugins == "No plugins in message"
NoItems == "No items in message"
InvalidHandle == "Invalid handle"

\* struct PluginHandleImpl / MessageHandleImpl.  The member error is never used;
\* encoded_data is scratch space of *_encode, written and read within one call, and
\* is kept out of the state.
HandleImpl(st, kind, plugins) == [st |-> st, kind |-> kind, plugins |-> plugins]

NoHandle == HandleImpl("unallocated", "none", <<>>)

\* struct ParameterHandleImpl: param points at plugins[0].Parameters[index] of owner
ParameterHandleImpl(owner, index) == [alloc |-> TRUE, owner |-> owner, index |-> index]

NoParam == [alloc |-> FALSE, owner |-> 0, index |-> 0]

\* a uint8_t array made by new[] in *_encode; kind tells which library made it
NoBuffer == [alloc |-> FALSE, kind |-> "none", bytes |-> <<>>]

NoValue == Opt(FALSE, <<>>)

\* The record of a call: its arguments (h, p, index, input, slot: an error_msg
\* slot was supplied), its integer return value ret (a handle, a size, a count),
\* the value out a getter returned (has = FALSE is nullptr), the text err written
\* to *error_msg with the number errs of messages written, and ub: "none", or how
\* undefined behaviour turned out.
Call(op, h, p, index, input, slot, ret, out, err, ub) ==
    [op |-> op, h |-> h, p |-> p, index |-> index, input |-> input, slot |-> slot,
     ret |-> ret, out |-> out, err |-> err,
     errs |-> IF err # NoError THEN 1 ELSE 0, ub |-> ub]

Allocated ==
    Cardinality({h \in HandleIds : handles[h].st # "unallocated"})
    + Cardinality({p \in ParamIds : params[p].alloc})
    + Cardinality({b \in BufferIds : buffers[b].alloc})

\* Faulty variant of FreshHandle: one object in static storage serves every decode
FreshHandle_static == CHOOSE h \in HandleIds : \A g \in HandleIds : h <= g

\* operator new: the lowest address not yet used
FreshHandle == CHOOSE h \in HandleIds :
                   /\ handles[h].st = "unallocated"
                   /\ \A g \in HandleIds : g < h => handles[g].st # "unallocated"

FreshParam == CHOOSE p \in ParamIds :
                   /\ ~params[p].alloc
                   /\ \A q \in ParamIds : q < p => params[q].alloc

FreshBuffer == CHOOSE b \in BufferIds : ~buffers[b].alloc

CanAllocate == Allocated < MaxAllocs

\* Outcomes of undefined behaviour (a dangling or wild pointer is dereferenced):
\* the call returns some value, possibly a stale one, or the process dies
UBOutcomes == {"value", "crash"}

Live(h) == h \in HandleIds /\ handles[h].st = "live"

\* Faulty variant of Written: the message is never stored
Written_never(slot, msg) == NoError

\* if (error_msg) *error_msg = make_error_msg(msg)
Written(slot, msg) == IF slot THEN msg ELSE NoError

\* Faulty variant of boundary_decode: no test for an empty result
boundary_decode_lenient(op, kind, emptyMsg, data, slot) ==
    LET fail(msg) ==
            /\ last' = Call(op, NullHandle, 0, 0, data, slot, NullHandle, NoValue,
                            Written(slot, msg), "none")
            /\ UNCHANGED <<handles, params, buffers, crashed>>
    IN  /\ ~crashed
        /\ IF data.null \/ data.len = 0 THEN fail(InvalidInput)
           ELSE \E r \in {decode_call(data)} :
                IF r.err # NoError THEN fail(r.err)
                ELSE
                /\ CanAllocate
                /\ handles' = [handles EXCEPT ![FreshHandle] =
                                   HandleImpl("live", kind, r.result)]
                /\ last' = Call(op, NullHandle, 0, 0, data, slot, FreshHandle, NoValue,
                                NoError, "none")
                /\ UNCHANGED <<params, buffers, crashed>>

\* plugin_decode / message_decode: the two differ in the handle type and in the
\* message for an empty result
boundary_decode(op, kind, emptyMsg, data, slot) ==
    LET fail(msg) ==
            /\ last' = Call(op, NullHandle, 0, 0, data, slot, NullHandle, NoValue,
                            Written(slot, msg), "none")
            /\ UNCHANGED <<handles, params, buffers, crashed>>
    IN  /\ ~crashed
        /\ IF data.null \/ data.len = 0 THEN fail(InvalidInput)
           ELSE \E r \in {decode_call(data)} :
                IF r.err # NoError THEN fail(r.err)          \* catch (std::exception&)
                ELSE IF r.result = <<>> THEN fail(emptyMsg)
                ELSE
                /\ CanAllocate
                /\ handles' = [handles EXCEPT ![FreshHandle] =
                                   HandleImpl("live", kind, r.result)]
                /\ last' = Call(op, NullHandle, 0, 0, data, slot, FreshHandle, NoValue,
                                NoError, "none")
                /\ UNCHANGED <<params, buffers, crashed>>

plugin_decode(data, slot) ==
    boundary_decode("plugin_decode", "plugin", NoPlugins, data, slot)

message_decode(data, slot) ==
    boundary_decode("message_decode", "message", NoItems, data, slot)

\* A call that dereferences a pointer to no live object: it returns some value, or
\* the process dies and its heap with it
Undefined(op, h, p, index, slot) ==
    \/ /\ last' = Call(op, h, p, index, NoInput, slot, 0, NoValue, NoError, "value")
       /\ UNCHANGED <<handles, params, buffers, crashed>>
    \/ /\ last' = Call(op, h, p, index, NoInput, slot, 0, NoValue, NoError, "crash")
       /\ crashed' = TRUE
       /\ handles' = [g \in HandleIds |-> NoHandle]
       /\ params' = [q \in ParamIds |-> NoParam]
       /\ buffers' = [b \in BufferIds |-> NoBuffer]

\* Faulty variant of boundary_encode: the plugins are moved out of the handle
\* into the encoder, which leaves the handle with an empty sequence
boundary_encode_moving(op, kind, h, slot) ==
    /\ ~crashed
    /\ h \in HandleIds => handles[h].kind \in {kind, "none"}
    /\ IF h = NullHandle
       THEN /\ last' = Call(op, h, 0, 0, NoInput, slot, 0, NoValue,
                            Written(slot, InvalidHandle), "none")
            /\ UNCHANGED <<handles, params, buffers, crashed>>
       ELSE IF Live(h)
       THEN LET encoded_data == encode_plugin_message(handles[h].plugins)
            IN  /\ CanAllocate
                /\ buffers' = [buffers EXCEPT ![FreshBuffer] =
                                   [alloc |-> TRUE, kind |-> kind, bytes |-> encoded_data]]
                /\ handles' = [handles EXCEPT ![h] = HandleImpl("live", kind, <<>>)]
                /\ last' = Call(op, h, 0, 0, NoInput, slot, Len(encoded_data),
                                Opt(TRUE, FreshBuffer), NoError, "none")
                /\ UNCHANGED <<params, crashed>>
       ELSE Undefined(op, h, 0, 0, slot)

\* Faulty variant of boundary_encode: a live handle's encoding is handed out but
\* the call returns 0
boundary_encode_zero(op, kind, h, slot) ==
    /\ ~crashed
    /\ h \in HandleIds => handles[h].kind \in {kind, "none"}
    /\ IF h = NullHandle
       THEN /\ last' = Call(op, h, 0, 0, NoInput, slot, 0, NoValue,
                            Written(slot, InvalidHandle), "none")
            /\ UNCHANGED <<handles, params, buffers, crashed>>
       ELSE IF Live(h)
       THEN LET encoded_data == encode_plugin_message(handles[h].plugins)
            IN  /\ CanAllocate
                /\ buffers' = [buffers EXCEPT ![FreshBuffer] =
                                   [alloc |-> TRUE, kind |-> kind, bytes |-> encoded_data]]
                /\ last' = Call(op, h, 0, 0, NoInput, slot, 0,
                                Opt(TRUE, FreshBuffer), NoError, "none")
                /\ UNCHANGED <<handles, params, crashed>>
       ELSE Undefined(op, h, 0, 0, slot)

boundary_encode(op, kind, h, slot) ==
    /\ ~crashed
    /\ h \in HandleIds => handles[h].kind \in {kind, "none"}
    /\ IF h = NullHandle
       THEN /\ last' = Call(op, h, 0, 0, NoInput, slot, 0, NoValue,
                            Written(slot, InvalidHandle), "none")
            /\ UNCHANGED <<handles, params, buffers, crashed>>
       ELSE IF Live(h)
       THEN LET encoded_data == encode_plugin_message(handles[h].plugins)
            IN  /\ CanAllocate
                /\ buffers' = [buffers EXCEPT ![FreshBuffer] =
                                   [alloc |-> TRUE, kind |-> kind, bytes |-> encoded_data]]
                /\ last' = Call(op, h, 0, 0, NoInput, slot, Len(encoded_data),
                                Opt(TRUE, FreshBuffer), NoError, "none")
                /\ UNCHANGED <<handles, params, crashed>>
       ELSE Undefined(op, h, 0, 0, slot)

plugin_encode(h, slot) == boundary_encode("plugin_encode", "plugin", h, slot)

message_encode(h, slot) == boundary_encode("message_encode", "message", h, slot)

\* Faulty variant of boundary_free: the buffers encode returned live in the handle
\* and go away with it
boundary_free_with_data(op, kind, h) ==
    /\ ~crashed
    /\ h \in HandleIds => handles[h].kind \in {kind, "none"}
    /\ IF h = NullHandle
       THEN /\ last' = Call(op, h, 0, 0, NoInput, FALSE, 0, NoValue, NoError, "none")
            /\ UNCHANGED <<handles, params, buffers, crashed>>
       ELSE IF Live(h)
       THEN /\ handles' = [handles EXCEPT ![h] = HandleImpl("freed", kind, <<>>)]
            /\ buffers' = [b \in BufferIds |->
                               IF buffers[b].kind = kind THEN NoBuffer ELSE buffers[b]]
            /\ last' = Call(op, h, 0, 0, NoInput, FALSE, 0, NoValue, NoError, "none")
            /\ UNCHANGED <<params, crashed>>
       ELSE Undefined(op, h, 0, 0, FALSE)

\* delete static_cast<...*>(handle)
boundary_free(op, kind, h) ==
    /\ ~crashed
    /\ h \in HandleIds => handles[h].kind \in {kind, "none"}
    /\ IF h = NullHandle
       THEN /\ last' = Call(op, h, 0, 0, NoInput, FALSE, 0, NoValue, NoError, "none")
            /\ UNCHANGED <<handles, params, buffers, crashed>>
       ELSE IF Live(h)
       THEN /\ handles' = [handles EXCEPT ![h] = HandleImpl("freed", kind, <<>>)]
            /\ last' = Call(op, h, 0, 0, NoInput, FALSE, 0, NoValue, NoError, "none")
            /\ UNCHANGED <<params, buffers, crashed>>
       ELSE Undefined(op, h, 0, 0, FALSE)

plugin_free(h) == boundary_free("plugin_free", "plugin", h)

message_free(h) == boundary_free("message_free", "message", h)

\* delete[] data, for a buffer an encode call returned
boundary_free_data(op, kind, b) ==
    /\ ~crashed
    /\ buffers[b].alloc /\ buffers[b].kind = kind
    /\ buffers' = [buffers EXCEPT ![b] = NoBuffer]
    /\ last' = Call(op, 0, 0, b, NoInput, FALSE, 0, NoValue, NoError, "none")
    /\ UNCHANGED <<handles, params, crashed>>

plugin_free_data(b) == boundary_free_data("plugin_free_data", "plugin", b)

message_free_data(b) == boundary_free_data("message_free_data", "message", b)

---------------------------------------------------------------------------
(* Field accessor layer *)

\* a call that returns without touching the heap
Returns(c) ==
    /\ last' = c
    /\ UNCHANGED <<handles, params, buffers, crashed>>

\* plugin_get_name, plugin_get_manufacturer_id, plugin_get_type, plugin_get_subtype:
\* if (!handle) return nullptr; return impl->plugins[0].<field>.c_str()
plugin_get_text(op, h, field) ==
    /\ ~crashed
    /\ h \in HandleIds => handles[h].kind \in {"plugin", "none"}
    /\ IF h = NullHandle
       THEN Returns(Call(op, h, 0, 0, NoInput, FALSE, 0, NoValue, NoError, "none"))
       ELSE IF Live(h) /\ Len(handles[h].plugins) >= 1
       THEN Returns(Call(op, h, 0, 0, NoInput, FALSE, 0,
                         Opt(TRUE, handles[h].plugins[1][field]), NoError, "none"))
       ELSE Undefined(op, h, 0, 0, FALSE)

plugin_get_name(h) == plugin_get_text("plugin_get_name", h, "Name")
plugin_get_manufacturer_id(h) ==
    plugin_get_text("plugin_get_manufacturer_id", h, "ManufacturerID")
plugin_get_type(h) == plugin_get_text("plugin_get_type", h, "Type")
plugin_get_subtype(h) == plugin_get_text("plugin_get_subtype", h, "Subtype")

plugin_get_parameters_count(h) ==
    /\ ~crashed
    /\ h \in HandleIds => handles[h].kind \in {"plugin", "none"}
    /\ IF h = NullHandle
       THEN Returns(Call("plugin_get_parameters_count", h, 0, 0, NoInput, FALSE, 0,
                         NoValue, NoError, "none"))
       ELSE IF Live(h) /\ Len(handles[h].plugins) >= 1
       THEN Returns(Call("plugin_get_parameters_count", h, 0, 0, NoInput, FALSE,
                         Len(handles[h].plugins[1].Parameters), NoValue, NoError, "none"))
       ELSE Undefined("plugin_get_parameters_count", h, 0, 0, FALSE)

\* returns the address of a new ParameterHandleImpl, or nullptr (0)
plugin_get_parameter(h, index) ==
    /\ ~crashed
    /\ h \in HandleIds => handles[h].kind \in {"plugin", "none"}
    /\ IF h = NullHandle
       THEN Returns(Call("plugin_get_parameter", h, 0, index, NoInput, FALSE, 0,
                         NoValue, NoError, "none"))
       ELSE IF Live(h) /\ Len(handles[h].plugins) >= 1
       THEN IF index >= Len(handles[h].plugins[1].Parameters)
            THEN Returns(Call("plugin_get_parameter", h, 0, index, NoInput, FALSE, 0,
                              NoValue, NoError, "none"))
            ELSE /\ CanAllocate
                 /\ params' = [params EXCEPT ![FreshParam] = ParameterHandleImpl(h, index)]
                 /\ last' = Call("plugin_get_parameter", h, 0, index, NoInput, FALSE,
                                 FreshParam, NoValue, NoError, "none")
                 /\ UNCHANGED <<handles, buffers, crashed>>
       ELSE Undefined("plugin_get_parameter", h, 0, index, FALSE)

\* impl->param of a ParameterHandleImpl points at a live Parameter
ParamValid(p) ==
    /\ p \in ParamIds /\ params[p].alloc
    /\ Live(params[p].owner)
    /\ Len(handles[params[p].owner].plugins) >= 1
    /\ params[p].index < Len(handles[params[p].owner].plugins[1].Parameters)

\* *impl->param
Deref(p) == handles[params[p].owner].plugins[1].Parameters[params[p].index + 1]

\* the getters parameter_get_display_name .. parameter_get_raw_flags:
\* if (!handle) return <sentinel>; return impl->param-><field>
\* (.c_str() for a text; ? 1 : 0 for a bool)
parameter_get(op, p, sentinel, field) ==
    /\ ~crashed
    /\ IF p = NullHandle
       THEN Returns(Call(op, 0, p, 0, NoInput, FALSE, 0, sentinel, NoError, "none"))
       ELSE IF ParamValid(p)
       THEN Returns(Call(op, 0, p, 0, NoInput, FALSE, 0,
                         Opt(TRUE, IF field \in {"CanRamp", "IsWritable"}
                                   THEN (IF Deref(p)[field] THEN 1 ELSE 0)
                                   ELSE Deref(p)[field]),
                         NoError, "none"))
       ELSE Undefined(op, 0, p, 0, FALSE)

ZeroValue == Opt(TRUE, 0)

parameter_get_display_name(p) ==
    parameter_get("parameter_get_display_name", p, NoValue, "DisplayName")
parameter_get_default_value(p) ==
    parameter_get("parameter_get_default_value", p, ZeroValue, "DefaultValue")
parameter_get_current_value(p) ==
    parameter_get("parameter_get_current_value", p, ZeroValue, "CurrentValue")
parameter_get_address(p) ==
    parameter_get("parameter_get_address", p, ZeroValue, "Address")
parameter_get_max_value(p) ==
    parameter_get("parameter_get_max_value", p, ZeroValue, "MaxValue")
parameter_get_min_value(p) ==
    parameter_get("parameter_get_min_value", p, ZeroValue, "MinValue")
parameter_get_unit(p) ==
    parameter_get("parameter_get_unit", p, NoValue, "Unit")
parameter_get_identifier(p) ==
    parameter_get("parameter_get_identifier", p, NoValue, "Identifier")
parameter_get_can_ramp(p) ==
    parameter_get("parameter_get_can_ramp", p, ZeroValue, "CanRamp")
parameter_get_is_writable(p) ==
    parameter_get("parameter_get_is_writable", p, ZeroValue, "IsWritable")
parameter_get_raw_flags(p) ==
    parameter_get("parameter_get_raw_flags", p, Opt(TRUE, <<0, 0, 0, 0>>), "RawFlags")

parameter_get_indexed_values_count(p) ==
    /\ ~crashed
    /\ IF p = NullHandle
       THEN Returns(Call("parameter_get_indexed_values_count", 0, p, 0, NoInput, FALSE, 0,
                         NoValue, NoError, "none"))
       ELSE IF ParamValid(p)
       THEN Returns(Call("parameter_get_indexed_values_count", 0, p, 0, NoInput, FALSE,
                         IF ~Deref(p).IndexedValues.has THEN 0
                         ELSE Len(Deref(p).IndexedValues.val),
                         NoValue, NoError, "none"))
       ELSE Undefined("parameter_get_indexed_values_count", 0, p, 0, FALSE)

\* Faulty variant of parameter_get_indexed_value: the last element counts as out
\* of range
parameter_get_indexed_value_short(p, index) ==
    /\ ~crashed
    /\ IF p = NullHandle
       THEN Returns(Call("parameter_get_indexed_value", 0, p, index, NoInput, FALSE, 0,
                         NoValue, NoError, "none"))
       ELSE IF ParamValid(p)
       THEN Returns(Call("parameter_get_indexed_value", 0, p, index, NoInput, FALSE, 0,
                         IF ~Deref(p).IndexedValues.has THEN NoValue
                         ELSE IF index >= Len(Deref(p).IndexedValues.val) - 1 THEN NoValue
                         ELSE Opt(TRUE, Deref(p).IndexedValues.val[index + 1]),
                         NoError, "none"))
       ELSE Undefined("parameter_get_indexed_value", 0, p, index, FALSE)

parameter_get_indexed_value(p, index) ==
    /\ ~crashed
    /\ IF p = NullHandle
       THEN Returns(Call("parameter_get_indexed_value", 0, p, index, NoInput, FALSE, 0,
                         NoValue, NoError, "none"))
       ELSE IF ParamValid(p)
       THEN Returns(Call("parameter_get_indexed_value", 0, p, index, NoInput, FALSE, 0,
                         IF ~Deref(p).IndexedValues.has THEN NoValue
                         ELSE IF index >= Len(Deref(p).IndexedValues.val) THEN NoValue
                         ELSE Opt(TRUE, Deref(p).IndexedValues.val[index + 1]),
                         NoError, "none"))
       ELSE Undefined("parameter_get_indexed_value", 0, p, index, FALSE)

parameter_get_indexed_values_source(p) ==
    /\ ~crashed
    /\ IF p = NullHandle
       THEN Returns(Call("parameter_get_indexed_values_source", 0, p, 0, NoInput, FALSE, 0,
                         NoValue, NoError, "none"))
       ELSE IF ParamValid(p)
       THEN Returns(Call("parameter_get_indexed_values_source", 0, p, 0, NoInput, FALSE, 0,
                         IF ~Deref(p).IndexedValuesSource.has THEN NoValue
                         ELSE Opt(TRUE, Deref(p).IndexedValuesSource.val),
                         NoError, "none"))
       ELSE Undefined("parameter_get_indexed_values_source", 0, p, 0, FALSE)


---------------------------------------------------------------------------
(* The boundary as a state machine: a caller makes any sequence of calls *)

IndexArgs == 0..(MaxParams + 1)

AdjacentBytes == {0, 255}

IdleDec ==
    [err |-> NoError, result |-> <<>>, size |-> 0, pos |-> 0, reads |-> <<>>, flags |-> {}]

BoundaryInit ==
    /\ handles = [h \in HandleIds |-> NoHandle]
    /\ params = [p \in ParamIds |-> NoParam]
    /\ buffers = [b \in BufferIds |-> NoBuffer]
    /\ crashed = FALSE
    /\ last = Call("none", 0, 0, 0, NoInput, FALSE, 0, NoValue, NoError, "none")

Init ==
    /\ value = <<>> /\ wire = <<>> /\ origin = "none" /\ dec = IdleDec /\ cpc = "idle"
    /\ BoundaryInit

\* the pointers a caller passes: nullptr, what the layer returned, and one address
\* that it never returned
HandleArgs ==
    {NullHandle} \cup {h \in HandleIds : handles[h].st # "unallocated"}
    \cup {h \in HandleIds : /\ handles[h].st = "unallocated"
                            /\ \A g \in HandleIds : g < h => handles[g].st # "unallocated"}
ParamArgs == {NullHandle} \cup {p \in ParamIds : params[p].alloc}

\* A caller that decodes, encodes, reads the plugin fields and frees
Next ==
    \/ \E data \in BoundaryInputs, slot \in BOOLEAN :
           plugin_decode(data, slot) /\ UNCHANGED cvars
    \/ \E h \in HandleArgs, slot \in BOOLEAN : plugin_encode(h, slot) /\ UNCHANGED cvars
    \/ \E h \in HandleArgs : plugin_free(h) /\ UNCHANGED cvars
    \/ \E b \in BufferIds : plugin_free_data(b) /\ UNCHANGED cvars
    \/ \E h \in HandleArgs : plugin_get_name(h) /\ UNCHANGED cvars
    \/ \E h \in HandleArgs : plugin_get_manufacturer_id(h) /\ UNCHANGED cvars
    \/ \E h \in HandleArgs : plugin_get_type(h) /\ UNCHANGED cvars
    \/ \E h \in HandleArgs : plugin_get_subtype(h) /\ UNCHANGED cvars
    \/ \E h \in HandleArgs : plugin_get_parameters_count(h) /\ UNCHANGED cvars

Spec == Init /\ [][Next]_vars

\* what the caller of the parameter accessors decodes: the well-formed fixtures
AccessorInputs ==
    { Input(FALSE, encode_plugin_message(m), Len(encode_plugin_message(m))) :
          m \in BoundaryMessages }

\* A caller that decodes, walks the parameters of a plugin and frees
AccessorNext ==
    \/ \E data \in AccessorInputs : plugin_decode(data, TRUE) /\ UNCHANGED cvars
    \/ \E h \in HandleArgs : plugin_free(h) /\ UNCHANGED cvars
    \/ \E h \in HandleArgs, index \in IndexArgs :
           plugin_get_parameter(h, index) /\ UNCHANGED cvars
    \/ \E p \in ParamArgs : parameter_get_display_name(p) /\ UNCHANGED cvars
    \/ \E p \in ParamArgs : parameter_get_default_value(p) /\ UNCHANGED cvars
    \/ \E p \in ParamArgs : parameter_get_current_value(p) /\ UNCHANGED cvars
    \/ \E p \in ParamArgs : parameter_get_address(p) /\ UNCHANGED cvars
    \/ \E p \in ParamArgs : parameter_get_max_value(p) /\ UNCHANGED cvars
    \/ \E p \in ParamArgs : parameter_get_min_value(p) /\ UNCHANGED cvars
    \/ \E p \in ParamArgs : parameter_get_unit(p) /\ UNCHANGED cvars
    \/ \E p \in ParamArgs : parameter_get_identifier(p) /\ UNCHANGED cvars
    \/ \E p \in ParamArgs : parameter_get_can_ramp(p) /\ UNCHANGED cvars
    \/ \E p \in ParamArgs : parameter_get_is_writable(p) /\ UNCHANGED cvars
    \/ \E p \in ParamArgs : parameter_get_raw_flags(p) /\ UNCHANGED cvars
    \/ \E p \in ParamArgs : parameter_get_indexed_values_count(p) /\ UNCHANGED cvars
    \/ \E p \in ParamArgs, index \in IndexArgs :
           parameter_get_indexed_value(p, index) /\ UNCHANGED cvars
    \/ \E p \in ParamArgs : parameter_get_indexed_values_source(p) /\ UNCHANGED cvars

AccessorSpec == Init /\ [][AccessorNext]_vars

---------------------------------------------------------------------------
(* The codec pipeline: a message is encoded, the buffer is left as it is, cut    *)
(* short, damaged or lengthened, decoded by the codec, and then taken through    *)
(* the boundary: decode, encode, free.  Arbitrary short buffers enter the        *)
(* pipeline as they are.                                                         *)

CodecInit ==
    /\ \/ /\ value \in SampleMessages \cup LongMessages
          /\ wire = <<>> /\ origin = "none" /\ cpc = "value"
       \/ /\ value = <<>>
          /\ wire \in GarbageBuffers /\ origin = "garbage" /\ cpc = "wire"
    /\ dec = IdleDec
    /\ BoundaryInit

\* auto encoded = encode_plugin_message(value)
Encode ==
    /\ cpc = "value"
    /\ wire' = encode_plugin_message(value)
    /\ origin' = "encoded"
    /\ cpc' = "wire"
    /\ UNCHANGED <<value, dec>> /\ UNCHANGED bvars

\* how many trailing bytes are dropped: every count for a short buffer, the two
\* extremes for a long one
Cuts(n) == IF n < Uint16Max THEN 1..(n - 1) ELSE {1, n - 1}

Truncate ==
    /\ cpc = "wire" /\ origin = "encoded"
    /\ \E k \in Cuts(Len(wire)) : wire' = Prefix(wire, Len(wire) - k)
    /\ origin' = "truncated"
    /\ UNCHANGED <<value, dec, cpc>> /\ UNCHANGED bvars

CorruptBytes == {1, 255}

Corrupt ==
    /\ cpc = "wire" /\ origin = "encoded" /\ Len(wire) < Uint16Max
    /\ \E i \in 1..Len(wire), b \in CorruptBytes :
           /\ wire[i] # b
           /\ wire' = [wire EXCEPT ![i] = b]
    /\ origin' = "corrupted"
    /\ UNCHANGED <<value, dec, cpc>> /\ UNCHANGED bvars

Extend ==
    /\ cpc = "wire" /\ origin = "encoded"
    /\ \E b \in GarbageBytes : wire' = Append(wire, b)
    /\ origin' = "extended"
    /\ UNCHANGED <<value, dec, cpc>> /\ UNCHANGED bvars

\* decode_plugin_message(wire.data(), wire.size()), with any byte behind the buffer
Decode ==
    /\ cpc = "wire"
    /\ \E adj \in AdjacentBytes : dec' = decode_plugin_message(wire, Len(wire), adj)
    /\ cpc' = "decoded"
    /\ UNCHANGED <<value, wire, origin>> /\ UNCHANGED bvars

WireInput == Input(FALSE, wire, Len(wire))

PluginDecode ==
    /\ cpc = "decoded"
    /\ plugin_decode(WireInput, TRUE)
    /\ cpc' = "handle"
    /\ UNCHANGED <<value, wire, origin, dec>>

MessageDecode ==
    /\ cpc = "decoded"
    /\ message_decode(WireInput, TRUE)
    /\ cpc' = "handle"
    /\ UNCHANGED <<value, wire, origin, dec>>

PluginEncode ==
    /\ cpc = "handle" /\ Live(last.ret)
    /\ plugin_encode(last.ret, TRUE)
    /\ cpc' = "reencoded"
    /\ UNCHANGED <<value, wire, origin, dec>>

MessageEncode ==
    /\ cpc = "handle" /\ Live(last.ret)
    /\ message_encode(last.ret, TRUE)
    /\ cpc' = "reencoded"
    /\ UNCHANGED <<value, wire, origin, dec>>

PluginFree ==
    /\ cpc = "reencoded"
    /\ plugin_free(last.h)
    /\ cpc' = "freed"
    /\ UNCHANGED <<value, wire, origin, dec>>

MessageFree ==
    /\ cpc = "reencoded"
    /\ message_free(last.h)
    /\ cpc' = "freed"
    /\ UNCHANGED <<value, wire, origin, dec>>

PluginFreeData ==
    /\ cpc = "freed"
    /\ \E b \in BufferIds : plugin_free_data(b)
    /\ cpc' = "done"
    /\ UNCHANGED <<value, wire, origin, dec>>

MessageFreeData ==
    /\ cpc = "freed"
    /\ \E b \in BufferIds : message_free_data(b)
    /\ cpc' = "done"
    /\ UNCHANGED <<value, wire, origin, dec>>

CodecNext ==
    \/ Encode \/ Truncate \/ Corrupt \/ Extend \/ Decode
    \/ PluginDecode \/ MessageDecode
    \/ PluginEncode \/ MessageEncode
    \/ PluginFree \/ MessageFree
    \/ PluginFreeData \/ MessageFreeData

CodecSpec == CodecInit /\ [][CodecNext]_vars

---------------------------------------------------------------------------
(* Properties *)

\* decode_plugin_message has run on wire
Decoded == cpc \in {"decoded", "handle", "reencoded", "freed", "done"}

DecodeOps == {"plugin_decode", "message_decode"}
EncodeOps == {"plugin_encode", "message_encode"}

AllParameters(v) ==
    UNION { { v[i].Parameters[j] : j \in 1..Len(v[i].Parameters) } : i \in 1..Len(v) }

\* C1 (CodecSpec).  Round trip: a message whose text lengths and sequence counts
\* all fit 16 bits is decoded from its own encoding without error and equal to
\* itself, field for field: orders kept, and absent / present-but-empty
\* IndexedValues and IndexedValuesSource kept apart.
C1_RoundTrip ==
    (Decoded /\ origin = "encoded" /\ WithinLimits(value))
        => (dec.err = NoError /\ dec.result = value /\ dec.pos = Len(wire))

\* a message of MaxPlugins plugins with a present-but-empty IndexedValues and a
\* parameter with both optionals absent has made the round trip
C1_Witness ==
    /\ Decoded /\ origin = "encoded" /\ WithinLimits(value)
    /\ Len(value) = MaxPlugins
    /\ \E q \in AllParameters(value) : q.IndexedValues = Opt(TRUE, <<>>)
    /\ \E q \in AllParameters(value) : ~q.IndexedValues.has /\ ~q.IndexedValuesSource.has
    /\ dec.result = value

\* C2 (CodecSpec).  No buffer overrun: whatever the input (well-formed, cut short,
\* damaged, lengthened, arbitrary), the cursor stays within 0..size and every
\* read of n bytes at pos lies inside the buffer: pos + n <= size.
C2_NoOverrun ==
    /\ 0 <= dec.pos /\ dec.pos <= dec.size
    /\ \A i \in 1..Len(dec.reads) :
           /\ 0 <= dec.reads[i].pos
           /\ dec.reads[i].pos + dec.reads[i].n <= dec.size

\* a damaged buffer on which the decoder made reads up to the last byte and then
\* stopped with the error
C2_Witness ==
    /\ Decoded /\ origin = "corrupted"
    /\ dec.err = InsufficientData
    /\ Len(dec.reads) >= 2
    /\ dec.pos = dec.size

\* C3 (CodecSpec).  Truncation: the encoding of a within-limits message with its
\* last k bytes dropped, 1 <= k <= N - 1, makes decode_plugin_message throw
\* "insufficient data for decode", and the boundary decode return no handle, write
\* that message and allocate nothing.
C3_TruncationFails ==
    (origin = "truncated" /\ WithinLimits(value)) =>
        /\ Decoded => (dec.err = InsufficientData /\ dec.result = <<>>)
        /\ last.op \in DecodeOps =>
               /\ last.ret = NullHandle
               /\ last.err = InsufficientData
               /\ \A h \in HandleIds : handles[h].st = "unallocated"

\* the boundary decode has refused a full-size message that lacks its last byte
C3_Witness ==
    /\ origin = "truncated" /\ WithinLimits(value)
    /\ Len(value) = MaxPlugins
    /\ Len(wire) = Len(encode_plugin_message(value)) - 1
    /\ last.op = "plugin_decode" /\ last.err = InsufficientData

\* C4 (Spec).  Invalid handle: a call of encode or of a plugin accessor with a
\* handle that is not live (freed, or never returned by decode) has a defined
\* outcome: no undefined behaviour occurs.
C4_InvalidHandleDefined ==
    (last.op \in {"plugin_encode", "plugin_get_name", "plugin_get_manufacturer_id",
                  "plugin_get_type", "plugin_get_subtype",
                  "plugin_get_parameters_count"})
        => last.ub = "none"

\* the two count bytes at the head of w say 0 plugins
EmptyCount(w) == Len(w) >= 2 /\ w[1] = 0 /\ w[2] = 0

\* C5 (CodecSpec).  Empty message: a buffer whose plugin count is 0 is decoded by
\* the codec to the empty sequence without error; plugin_decode / message_decode
\* refuse it with their empty-message error and return no handle; no live handle
\* owns zero plugins.
C5_EmptyMessage ==
    /\ (Decoded /\ EmptyCount(wire)) => (dec.err = NoError /\ dec.result = <<>>)
    /\ (last.op \in DecodeOps /\ EmptyCount(last.input.bytes)) =>
           /\ last.ret = NullHandle
           /\ last.err = (IF last.op = "plugin_decode" THEN NoPlugins ELSE NoItems)
           /\ \A h \in HandleIds : handles[h].st = "unallocated"
    /\ \A h \in HandleIds : handles[h].st = "live" => Len(handles[h].plugins) >= 1

\* message_decode has refused a buffer of count 0 with trailing bytes that the
\* codec decoded to the empty sequence
C5_Witness ==
    /\ EmptyCount(wire) /\ Len(wire) > 2
    /\ dec.err = NoError /\ dec.result = <<>>
    /\ last.op = "message_decode" /\ last.err = NoItems /\ last.ret = NullHandle

\* what plugin_decode has returned and written
C6_Outcome ==
    last.op = "plugin_decode" =>
        \/ /\ last.ret # NullHandle /\ Live(last.ret)
           /\ last.errs = 0 /\ last.err = NoError
        \/ /\ last.ret = NullHandle
           /\ last.errs = (IF last.slot THEN 1 ELSE 0)
           /\ last.slot => last.err \in {InvalidInput, NoPlugins, InsufficientData}
           /\ last.ub = "none" /\ ~crashed

\* a step that is a failing plugin_decode
C6_FailureAllocatesNothing ==
    (last'.op = "plugin_decode" /\ last'.ret = NullHandle) => handles' = handles

\* C6 (Spec).  plugin_decode returns a handle or an error, never both and never
\* neither: a non-null live handle with no message written, or null with exactly
\* one message written when a slot was supplied (none without a slot); a failing
\* decode leaves every handle as it was; the codec's exception ends as the message
\* and the call returns.
C6_HandleXorError == []C6_Outcome /\ [][C6_FailureAllocatesNothing]_vars

\* plugin_decode has refused a buffer cut short, with a slot supplied, while a
\* handle decoded earlier is live
C6_Witness ==
    /\ last.op = "plugin_decode" /\ last.ret = NullHandle
    /\ last.slot /\ last.err = InsufficientData
    /\ \E h \in HandleIds : Live(h)

\* what plugin_get_parameter and parameter_get_indexed_value have returned
C7_Values ==
    /\ (last.op = "plugin_get_parameter" /\ last.ub = "none" /\ last.h # NullHandle) =>
           LET ps == handles[last.h].plugins[1].Parameters
           IN  IF last.index >= Len(ps) THEN last.ret = NullHandle
               ELSE /\ last.ret # NullHandle
                    /\ ParamValid(last.ret)
                    /\ params[last.ret].owner = last.h
                    /\ Deref(last.ret) = ps[last.index + 1]
    /\ (last.op = "parameter_get_indexed_value" /\ last.ub = "none"
            /\ last.p # NullHandle) =>
           LET iv == Deref(last.p).IndexedValues
           IN  IF ~iv.has \/ last.index >= Len(iv.val) THEN last.out = NoValue
               ELSE last.out = Opt(TRUE, iv.val[last.index + 1])

\* a step that is one of the two calls, made on live objects
C7_HandlesUnchanged ==
    (last'.op \in {"plugin_get_parameter", "parameter_get_indexed_value"}
        /\ last'.ub = "none") => handles' = handles

\* C7 (AccessorSpec).  Out-of-range leniency: on a live handle
\* plugin_get_parameter(h, i) returns null for i >= count and otherwise a handle
\* to the i-th parameter of the decoded sequence; parameter_get_indexed_value(p, j)
\* returns null when IndexedValues is absent or j >= its count and otherwise its
\* j-th element; neither call changes a handle.
C7_OutOfRangeLenient == []C7_Values /\ [][C7_HandlesUnchanged]_vars

\* parameter_get_indexed_value has returned the last element of a list of three
C7_Witness ==
    /\ last.op = "parameter_get_indexed_value" /\ last.ub = "none"
    /\ last.p # NullHandle
    /\ Len(Deref(last.p).IndexedValues.val) = 3
    /\ last.index = 2
    /\ last.out = Opt(TRUE, <<>>)

\* C8 (CodecSpec).  16-bit limit: encode_plugin_message produces bytes only for a
\* message within the limits, and the length prefix of the first plugin's Name
\* equals the number of bytes of that Name.
C8_SizeLimitEnforced ==
    (origin = "encoded" /\ Len(value) >= 1) =>
        /\ WithinLimits(value)
        /\ wire[3] + wire[4] * ByteRange = Len(value[1].Name)

\* C9 (AccessorSpec).  Nothing that plugin_get_parameter allocated outlives the
\* plugin handle it was made for: every ParameterHandleImpl belongs to a live
\* handle.
C9_NothingOutstanding ==
    \A p \in ParamIds : params[p].alloc => Live(params[p].owner)

\* C10 as stated (CodecSpec).  Re-encode size: encoding the handle of an accepted
\* input returns the length of that input.
C10_SizeEqualsInput ==
    (cpc = "reencoded" /\ last.op \in EncodeOps) => last.ret = Len(wire)

\* C10 amended (CodecSpec).  Encoding the handle of an accepted input returns the
\* number of bytes the decoder consumed, which is at most the length of the
\* input, and the returned buffer has that many bytes; for an input that is the
\* unchanged encoding of a within-limits message it is the length of the input.
C10_SizeEqualsConsumed ==
    (cpc = "reencoded" /\ last.op \in EncodeOps) =>
        /\ last.ret = dec.pos
        /\ dec.pos <= Len(wire)
        /\ last.out.has /\ Len(buffers[last.out.val].bytes) = last.ret
        /\ (origin = "encoded" /\ WithinLimits(value)) => last.ret = Len(wire)

\* a message followed by one more byte was accepted and re-encoded one byte
\* shorter
C10_Witness ==
    /\ cpc = "reencoded" /\ last.op = "message_encode"
    /\ origin = "extended"
    /\ last.ret = Len(wire) - 1

\* what plugin_encode has returned and written, apart from the message
C11_ReturnAndBuffer ==
    /\ last.ret = 0 <=> last.h = NullHandle
    /\ last.h = NullHandle =>
           /\ ~last.out.has
           /\ last.slot => last.err = InvalidHandle
    /\ last.h # NullHandle =>
           /\ Live(last.h)
           /\ last.ret > 0
           /\ last.errs = 0
           /\ last.out.has
           /\ buffers[last.out.val].alloc
           /\ Len(buffers[last.out.val].bytes) = last.ret

\* C11 as stated (Spec).  plugin_encode returns 0 exactly when it fails, and then
\* it has written an error message and no buffer pointer; on a live handle it
\* returns a size above 0 and a buffer of that many bytes.
C11_ZeroMeansError ==
    (last.op = "plugin_encode" /\ last.ub = "none") =>
        /\ C11_ReturnAndBuffer
        /\ last.ret = 0 => last.errs = 1

\* C11 amended (Spec).  plugin_encode returns 0 exactly when it fails (the handle
\* is null), and then it has written no buffer pointer and exactly one error
\* message if the caller supplied an error slot, none otherwise; on a live handle
\* it returns a size above 0, writes no message and hands out a buffer of exactly
\* that many bytes.
C11_ZeroMeansErrorWithSlot ==
    (last.op = "plugin_encode" /\ last.ub = "none") =>
        /\ C11_ReturnAndBuffer
        /\ last.ret = 0 => last.errs = (IF last.slot THEN 1 ELSE 0)

\* plugin_encode was called with a null handle and without an error slot, after an
\* earlier call had handed out a buffer
C11_Witness ==
    /\ last.op = "plugin_encode" /\ last.h = NullHandle /\ ~last.slot
    /\ last.ret = 0
    /\ \E b \in BufferIds : buffers[b].alloc

\* the plugin field a text getter returns
TextGetterField ==
    [plugin_get_name |-> "Name", plugin_get_manufacturer_id |-> "ManufacturerID",
     plugin_get_type |-> "Type", plugin_get_subtype |-> "Subtype"]

\* a defined call on a handle returns what that handle's own entity value says
C12_OwnValue ==
    (last.ub = "none" /\ last.h # NullHandle) =>
        /\ last.op \in DOMAIN TextGetterField =>
               last.out = Opt(TRUE, handles[last.h].plugins[1][TextGetterField[last.op]])
        /\ last.op = "plugin_get_parameters_count" =>
               last.ret = Len(handles[last.h].plugins[1].Parameters)
        /\ last.op = "plugin_encode" =>
               buffers[last.out.val].bytes = encode_plugin_message(handles[last.h].plugins)

\* a defined step: a successful decode makes a handle at an address that held
\* none, and every handle other than the one the call is made on stays as it is
C12_Frame ==
    last'.ub = "none" =>
        /\ (last'.op = "plugin_decode" /\ last'.ret # NullHandle) =>
               /\ handles[last'.ret].st = "unallocated"
               /\ handles'[last'.ret].st = "live"
               /\ handles'[last'.ret].plugins = decode_call(last'.input).result
        /\ \A B \in HandleIds :
               (B # last'.h /\ ~(last'.op = "plugin_decode" /\ B = last'.ret))
                   => handles'[B] = handles[B]

\* C12 (Spec).  Handle independence: a successful decode returns a new handle
\* that owns the value decoded from its input; a defined call on a handle A
\* (encode, accessor, free) leaves every other handle B as it is - state and owned
\* value - and whatever a call on B returns is read from B's own value, so no
\* interleaving of calls on A changes it.
C12_HandleIndependence == []C12_OwnValue /\ [][C12_Frame]_vars

\* a handle has just been freed while another handle is live
C12_Witness ==
    /\ last.op = "plugin_free" /\ last.ub = "none" /\ last.h # NullHandle
    /\ handles[last.h].st = "freed"
    /\ \E B \in HandleIds : B # last.h /\ Live(B) /\ Len(handles[B].plugins) = MaxPlugins

\* the calls that only read a handle
ReadOnlyOps == DOMAIN TextGetterField \cup {"plugin_get_parameters_count", "plugin_encode"}

\* a defined step, seen from the handles and the buffers encode has handed out
C13_Step ==
    last'.ub = "none" =>
        /\ (last'.op \in ReadOnlyOps /\ last'.h # NullHandle) =>
               /\ handles' = handles
               /\ handles'[last'.h].st = "live"
        /\ (last'.op = "plugin_encode" /\ last'.h # NullHandle) =>
               /\ ~buffers[last'.out.val].alloc
               /\ buffers'[last'.out.val].alloc
               /\ buffers'[last'.out.val].bytes
                      = encode_plugin_message(handles[last'.h].plugins)
               /\ (last.op = "plugin_encode" /\ last.ub = "none" /\ last.h = last'.h
                       /\ buffers[last.out.val].alloc) =>
                      /\ last'.out.val # last.out.val
                      /\ buffers'[last'.out.val].bytes = buffers'[last.out.val].bytes
        /\ \A b \in BufferIds :
               (buffers[b].alloc /\ ~(last'.op = "plugin_free_data" /\ last'.index = b))
                   => buffers'[b] = buffers[b]

\* C13 (Spec).  Encode is repeatable and read-only: a defined encode or accessor
\* call on a live handle leaves every handle's owned value unchanged and the handle
\* live; encode returns, in a buffer that was not allocated before, the bytes
\* encode_plugin_message gives for the owned value, the same bytes as the previous
\* encode of that handle; and a buffer already handed out keeps its contents through
\* later encodes, the freeing of other buffers and the freeing of the handle.
C13_EncodeRepeatable == [][C13_Step]_vars

\* a handle was encoded twice and then freed; both buffers are still there
C13_Witness ==
    /\ last.op = "plugin_free" /\ last.ub = "none" /\ last.h # NullHandle
    /\ handles[last.h].st = "freed"
    /\ \E b1, b2 \in BufferIds :
           /\ b1 # b2 /\ buffers[b1].alloc /\ buffers[b2].alloc
           /\ buffers[b1].bytes = buffers[b2].bytes
           /\ Len(buffers[b1].bytes) > 2

\* the plugin-level accessors, all of which read plugins[0]
PluginAccessorOps == DOMAIN TextGetterField \cup {"plugin_get_parameters_count"}

\* C14 (Spec).  Implicit invariant: in every state reachable by decode, encode,
\* accessor and free calls every live handle owns at least one plugin, so a
\* plugin-level accessor called on a live handle finds plugins[0] inside the owned
\* sequence: the call is defined and a text getter returns a string.
C14_LiveHandleNonEmpty ==
    /\ \A h \in HandleIds : Live(h) => Len(handles[h].plugins) >= 1
    /\ (last.op \in PluginAccessorOps /\ last.h # NullHandle /\ Live(last.h)) =>
           /\ last.ub = "none"
           /\ last.op \in DOMAIN TextGetterField => last.out.has

\* an accessor has read plugins[0] of a handle that owns exactly one plugin, after
\* an encode and a free have happened
C14_Witness ==
    /\ last.op = "plugin_get_name" /\ last.ub = "none"
    /\ last.h # NullHandle /\ Live(last.h)
    /\ Len(handles[last.h].plugins) = 1
    /\ \E b \in BufferIds : buffers[b].alloc
    /\ \E g \in HandleIds : handles[g].st = "freed"

\* every byte of wire the decoder read as a boolean or a presence flag is 0 or 1
FlagBytesNormal == \A p \in dec.flags : wire[p + 1] \in {0, 1}

\* the part of wire the decoder consumed, each flag byte replaced by what the
\* decoder took it for
Normalised ==
    [i \in 1..dec.pos |->
        IF (i - 1) \in dec.flags THEN (IF wire[i] # 0 THEN 1 ELSE 0) ELSE wire[i]]

\* C15 (CodecSpec).  Implicit boolean normalisation: an encoded message has only
\* 0x00 or 0x01 at every boolean and presence-flag position; the decoder takes any
\* non-zero byte there as true, so whenever a buffer is accepted, encoding the
\* decoded value gives the consumed bytes with every flag byte turned into 0 or 1;
\* and the bytes plugin_encode or message_encode returns for the decoded handle
\* equal the input only if all its flag bytes are 0 or 1 and nothing follows the
\* last decoded field.
C15_BoolNormalisation ==
    /\ (Decoded /\ origin = "encoded" /\ WithinLimits(value)) => FlagBytesNormal
    /\ (Decoded /\ dec.err = NoError) =>
           encode_plugin_message(dec.result) = Normalised
    /\ (cpc = "reencoded" /\ last.op \in EncodeOps /\ last.ub = "none"
           /\ buffers[last.out.val].bytes = wire)
           => (FlagBytesNormal /\ dec.pos = Len(wire))

\* a buffer whose only damage is a flag byte of 0xFF was accepted as the value it
\* was made from, and the handle's encoding differs from it in that byte alone
C15_Witness ==
    /\ cpc = "reencoded" /\ origin = "corrupted" /\ last.op \in EncodeOps
    /\ dec.err = NoError /\ dec.result = value /\ dec.pos = Len(wire)
    /\ \E p \in dec.flags : wire[p + 1] = ByteRange - 1
    /\ buffers[last.out.val].bytes # wire
    /\ buffers[last.out.val].bytes = encode_plugin_message(value)

====
